---- MODULE Spec2Model ----
(***************************************************************************)
(* Express-jobly: the authorization middleware (middleware/auth.js), the   *)
(* job routes (routes/jobs.js), the partial-update builder                 *)
(* (helpers/sql.js) and the Job and User models.                           *)
(*                                                                         *)
(* JavaScript values are represented by strings: "'New'" is the string     *)
(* New, "99999" a number, "null" is null.  A missing property reads as     *)
(* JsUndefined.                                                            *)
(***************************************************************************)
EXTENDS Integers, Sequences, FiniteSets, TLC

VARIABLES
    req,        \* the request being served: route, authorization header, params, body
    locals,     \* res.locals.user
    pc,         \* where the request is: idle, authenticateJWT, chain, error, done
    mwIdx,      \* position in the route's middleware list
    ran,        \* the middleware and handlers that ran for this request, in order
    err,        \* the error handed to next(err), "none" when there is none
    status,     \* the response status, 0 while there is no response
    jobs,       \* the rows of table jobs
    jobs0,      \* the rows of table jobs when the current request or call began
    users,      \* the rows of table users
    users0,     \* the rows of table users when the current request or call began
    nextId,     \* the next value of jobs_id_seq
    stmts,      \* the statements the current request or call handed to db.query
    unit,       \* the last direct call of one middleware: its arguments and outcome
    sqlCall,    \* the last direct call of sqlForPartialUpdate: arguments and result
    modelCall,  \* the last direct call of a model method: arguments and result
    findCall,   \* the last direct call of Job.findAll: queries, filters and result
    applications,   \* the rows of table applications
    applications0,  \* the rows of table applications when the current call began
    creating    \* the calls of Job.create in progress, one per concurrent request

vars == <<req, locals, pc, mwIdx, ran, err, status, jobs, jobs0, users, users0,
          nextId, stmts, unit, sqlCall, modelCall, findCall,
          applications, applications0, creating>>

(***************************************************************************)
(* Bounds of the model.                                                    *)
(***************************************************************************)
MaxKeys == 2        \* the longest update spec enumerated
MaxCreated == 1     \* jobs created on top of the seeded ones
MaxRequesters == 2  \* requests in progress at the same time
MaxInserted == 2    \* jobs stored by concurrent requests, after which none begins

(***************************************************************************)
(* JavaScript values.                                                      *)
(***************************************************************************)
JsUndefined == "undefined"

Truthy(v) == v \notin {JsUndefined, "", "null", "0", "false"}

\* Object.prototype, which every object literal inherits from: o[k] and
\* (k in o) see these properties when o has no own property k.
ObjectPrototype == [constructor |-> "function Object() { [native code] }"]

EmptyObject == [k \in {} |-> ""]

\* o[k] for an object o whose own properties are the function o.
GetProp(o, k) ==
    IF k \in DOMAIN o THEN o[k]
    ELSE IF k \in DOMAIN ObjectPrototype THEN ObjectPrototype[k]
    ELSE JsUndefined

(***************************************************************************)
(* Actors and tokens.                                                      *)
(***************************************************************************)
NoUsername == JsUndefined

Usernames == {"u1", "u3", "admin"}

\* res.locals.user before any token is verified.
NoUser == [attached |-> FALSE, username |-> NoUsername, isAdmin |-> FALSE]

Payload(u, a) == [attached |-> TRUE, username |-> u, isAdmin |-> a]

\* Token payloads: the three tokens of the route tests, and signed payloads
\* that carry no username.
Payloads ==
    { Payload("u1", FALSE), Payload("u3", FALSE), Payload("admin", TRUE),
      Payload(NoUsername, FALSE), Payload(NoUsername, TRUE) }

Actors == {NoUser} \cup Payloads

NoToken == [kind |-> "empty", payload |-> NoUser]

Tokens ==
    [kind : {"valid"}, payload : Payloads]
    \cup { [kind |-> "malformed", payload |-> NoUser],
           [kind |-> "badsig", payload |-> Payload("admin", TRUE)],
           NoToken }

NoHeader == [present |-> FALSE, scheme |-> "", token |-> NoToken]

Headers ==
    {NoHeader}
    \cup [present : {TRUE}, scheme : {"Bearer "}, token : Tokens]
    \cup [present : {TRUE}, scheme : {"bearer ", "", "Basic "},
          token : { [kind |-> "valid", payload |-> Payload("admin", TRUE)] }]
    \cup { [present |-> TRUE, scheme |-> "", token |-> NoToken] }

(***************************************************************************)
(* middleware/auth.js                                                      *)
(***************************************************************************)

\* authHeader.replace(/^[Bb]earer /, "").trim(): what is left in front of the
\* token, and the token.
StripBearer(h) ==
    [rest  |-> IF h.scheme \in {"Bearer ", "bearer "} THEN "" ELSE h.scheme,
     token |-> h.token]

\* jwt.verify(token, SECRET_KEY): the payload, or a throw.
jwtVerify(s) ==
    IF s.rest = "" /\ s.token.kind = "valid"
    THEN [threw |-> FALSE, payload |-> s.token.payload]
    ELSE [threw |-> TRUE, payload |-> NoUser]

HeaderTruthy(h) == h.present /\ ~(h.scheme = "" /\ h.token.kind = "empty")

authenticateJWT_Strict(h, user) ==
    IF HeaderTruthy(h)
    THEN LET v == jwtVerify(StripBearer(h))
         IN  IF v.threw THEN [err |-> "UnauthorizedError", user |-> user]
             ELSE [err |-> "none", user |-> v.payload]
    ELSE [err |-> "none", user |-> user]

\* The error handed to next ("none" for next()) and res.locals.user afterwards.
authenticateJWT(h, user) ==
    IF HeaderTruthy(h)
    THEN LET v == jwtVerify(StripBearer(h))
         IN  IF v.threw THEN [err |-> "none", user |-> user]
             ELSE [err |-> "none", user |-> v.payload]
    ELSE [err |-> "none", user |-> user]

ensureLoggedIn(user) ==
    IF ~user.attached THEN "UnauthorizedError" ELSE "none"

ensureAdmin_Swapped(user) ==
    IF user.attached /\ user.isAdmin THEN "none"
    ELSE IF user.attached THEN "UnauthorizedError"
    ELSE "ForbiddenError"

ensureAdmin_AnyUser(user) ==
    IF user.attached THEN "none" ELSE "UnauthorizedError"

ensureAdmin(user) ==
    IF user.attached /\ user.isAdmin THEN "none"
    ELSE IF user.attached THEN "ForbiddenError"
    ELSE "UnauthorizedError"

ensureOwnerOrAdmin_AdminOnly(user, username) ==
    IF ~user.attached THEN "TypeError"
    ELSE IF user.isAdmin THEN "none"
    ELSE "ForbiddenError"

ensureOwnerOrAdmin_OwnerFirst(user, username) ==
    IF ~user.attached THEN "TypeError"
    ELSE IF user.username = username THEN "none"
    ELSE "ForbiddenError"

\* Reading loggedInUser.isAdmin when res.locals.user is undefined throws a
\* TypeError, which the catch hands to next.
ensureOwnerOrAdmin(user, username) ==
    IF ~user.attached THEN "TypeError"
    ELSE IF user.isAdmin \/ user.username = username THEN "none"
    ELSE "ForbiddenError"

\* The status the error handler answers with (err.status, 500 without one).
StatusOf(e) ==
    CASE e = "UnauthorizedError" -> 401
      [] e = "ForbiddenError"    -> 403
      [] e = "BadRequestError"   -> 400
      [] e = "NotFoundError"     -> 404
      [] OTHER                   -> 500

(***************************************************************************)
(* helpers/sql.js                                                          *)
(*                                                                         *)
(* An object literal is the sequence of its own properties [k, v] in       *)
(* Object.keys order; its keys are distinct.                               *)
(***************************************************************************)
ObjectKeys(o) == [i \in 1..Len(o) |-> o[i].k]

ObjectValues(o) == [i \in 1..Len(o) |-> o[i].v]

OwnKeys(o) == {o[i].k : i \in 1..Len(o)}

\* o.k for an object literal o.
GetOwn(o, key) ==
    IF key \in OwnKeys(o)
    THEN (CHOOSE p \in {o[i] : i \in 1..Len(o)} : p.k = key).v
    ELSE IF key \in DOMAIN ObjectPrototype THEN ObjectPrototype[key]
    ELSE JsUndefined

\* (key in o): own or inherited.
HasProperty(o, key) == key \in OwnKeys(o) \cup DOMAIN ObjectPrototype

\* The jsToSql argument: not passed (the default {} applies) or an object.
NotPassed == [passed |-> FALSE, map |-> EmptyObject]

Passed(m) == [passed |-> TRUE, map |-> m]

RECURSIVE Join(_, _)
\* Array.prototype.join
Join(strs, sep) ==
    IF Len(strs) = 0 THEN ""
    ELSE IF Len(strs) = 1 THEN strs[1]
    ELSE strs[1] \o sep \o Join(Tail(strs), sep)

ColumnFor_KeyOnly(jsToSql, colName) == colName

\* jsToSql[colName] || colName
ColumnFor(jsToSql, colName) ==
    IF Truthy(GetProp(jsToSql, colName)) THEN GetProp(jsToSql, colName)
    ELSE colName

\* `"${column}"=$${idx + 1}` for the 0-based index idx
Fragment(column, idx) == "\"" \o column \o "\"=$" \o ToString(idx + 1)

NoDataThrown ==
    [threw |-> TRUE, err |-> "BadRequestError", message |-> "No data",
     cols |-> <<>>, setCols |-> "", values |-> <<>>, sets |-> <<>>]

sqlForPartialUpdate_NoEmptyCheck(dataToUpdate, jsToSqlArg) ==
    LET jsToSql == IF jsToSqlArg.passed THEN jsToSqlArg.map ELSE EmptyObject
        keys == ObjectKeys(dataToUpdate)
        cols == [i \in 1..Len(keys) |-> Fragment(ColumnFor(jsToSql, keys[i]), i - 1)]
    IN  [threw |-> FALSE, err |-> "none", message |-> "",
         cols |-> cols,
         setCols |-> Join(cols, ", "),
         values |-> ObjectValues(dataToUpdate),
         sets |-> [i \in 1..Len(keys) |->
                     [col |-> ColumnFor(jsToSql, keys[i]), ph |-> (i - 1) + 1]]]

sqlForPartialUpdate_ZeroBased(dataToUpdate, jsToSqlArg) ==
    LET jsToSql == IF jsToSqlArg.passed THEN jsToSqlArg.map ELSE EmptyObject
        keys == ObjectKeys(dataToUpdate)
        cols == [i \in 1..Len(keys) |-> Fragment(ColumnFor(jsToSql, keys[i]), i - 2)]
    IN  IF Len(keys) = 0 THEN NoDataThrown
        ELSE [threw |-> FALSE, err |-> "none", message |-> "",
              cols |-> cols,
              setCols |-> Join(cols, ", "),
              values |-> ObjectValues(dataToUpdate),
              sets |-> [i \in 1..Len(keys) |->
                          [col |-> ColumnFor(jsToSql, keys[i]), ph |-> i - 1]]]

\* The result { setCols, values }, or the throw.  cols is the array joined
\* into setCols; sets is setCols as the database reads it: the assigned
\* columns and the placeholder of each.
sqlForPartialUpdate(dataToUpdate, jsToSqlArg) ==
    LET jsToSql == IF jsToSqlArg.passed THEN jsToSqlArg.map ELSE EmptyObject
        keys == ObjectKeys(dataToUpdate)
        cols == [i \in 1..Len(keys) |-> Fragment(ColumnFor(jsToSql, keys[i]), i - 1)]
    IN  IF Len(keys) = 0 THEN NoDataThrown
        ELSE [threw |-> FALSE, err |-> "none", message |-> "",
              cols |-> cols,
              setCols |-> Join(cols, ", "),
              values |-> ObjectValues(dataToUpdate),
              sets |-> [i \in 1..Len(keys) |->
                          [col |-> ColumnFor(jsToSql, keys[i]), ph |-> (i - 1) + 1]]]

(***************************************************************************)
(* The database, as the models' statements use it.  A statement is its     *)
(* text and its parameters; an UPDATE is read through the assignments      *)
(* (column, placeholder) its SET text holds.                               *)
(***************************************************************************)
JobColumns == {"id", "title", "salary", "equity", "company_handle"}

UserColumns == {"username", "password", "first_name", "last_name", "email", "is_admin"}

Stmt(sql, params) == [sql |-> sql, params |-> params]

RECURSIVE ApplySets(_, _, _)
ApplySets(row, sets, params) ==
    IF Len(sets) = 0 THEN row
    ELSE ApplySets([row EXCEPT ![sets[1].col] = params[sets[1].ph]],
                   Tail(sets), params)

\* UPDATE <table> SET <sets> WHERE <keyCol> = $<wherePh> RETURNING ...
\* The statement fails on an empty SET list, on a column the table does not
\* have, on a column assigned twice and on a placeholder without a parameter.
DbUpdate(rows, columns, keyCol, sets, wherePh, params) ==
    LET phs == {sets[i].ph : i \in 1..Len(sets)} \cup {wherePh}
        bad == \/ Len(sets) = 0
               \/ \E i \in 1..Len(sets) : sets[i].col \notin columns
               \/ \E i, j \in 1..Len(sets) : i # j /\ sets[i].col = sets[j].col
               \/ \E n \in phs : n < 1 \/ n > Len(params)
        hit == IF bad THEN {} ELSE {r \in rows : r[keyCol] = params[wherePh]}
    IN  [err  |-> IF bad THEN "DbError" ELSE "none",
         rows |-> (rows \ hit) \cup {ApplySets(r, sets, params) : r \in hit},
         ret  |-> {ApplySets(r, sets, params) : r \in hit}]

\* bcrypt.hash(password, BCRYPT_WORK_FACTOR)
Hash(password) == "hash(" \o password \o ")"

(***************************************************************************)
(* models/job.js                                                           *)
(***************************************************************************)
Result(e, rows, st, ret) == [err |-> e, rows |-> rows, stmts |-> st, ret |-> ret]

\* Job.create: the result, the rows and the sequence value afterwards.
Job_create(rows, seq, data) ==
    LET title == GetOwn(data, "title")
        companyHandle == GetOwn(data, "companyHandle")
        check == Stmt("SELECT title FROM jobs WHERE title = $1 AND company_handle = $2",
                      <<title, companyHandle>>)
        insert == Stmt("INSERT INTO jobs (title, salary, equity, company_handle ) VALUES ($1, $2, $3, $4)",
                       <<title, GetOwn(data, "salary"), GetOwn(data, "equity"), companyHandle>>)
        job == [id |-> seq, title |-> title, salary |-> GetOwn(data, "salary"),
                equity |-> GetOwn(data, "equity"), company_handle |-> companyHandle]
    IN  IF \E r \in rows : r.title = title /\ r.company_handle = companyHandle
        THEN [res |-> Result("BadRequestError", rows, <<check>>, {}), seq |-> seq]
        ELSE [res |-> Result("none", rows \cup {job}, <<check, insert>>, {job}),
              seq |-> seq + 1]

\* The two statements of Job.create, each a step of its own: other requests
\* run between the await of the first and the second.
Job_create_duplicateCheck(rows, data) ==
    {r \in rows : /\ r.title = GetOwn(data, "title")
                  /\ r.company_handle = GetOwn(data, "companyHandle")}

\* What the database does with the INSERT of a job whose title and company
\* are those of a stored job: the schema script is not part of the sources,
\* so the row is either rejected by a uniqueness constraint or stored.
DuplicateRowOutcomes == {"rejected", "stored"}

Job_create_insert(rows, seq, data, duplicateRow) ==
    LET job == [id |-> seq, title |-> GetOwn(data, "title"),
                salary |-> GetOwn(data, "salary"), equity |-> GetOwn(data, "equity"),
                company_handle |-> GetOwn(data, "companyHandle")]
    IN  IF Job_create_duplicateCheck(rows, data) # {} /\ duplicateRow = "rejected"
        THEN [err |-> "DbError", rows |-> rows, seq |-> seq + 1]
        ELSE [err |-> "none", rows |-> rows \cup {job}, seq |-> seq + 1]

Job_get(rows, jobId) ==
    LET q == Stmt("SELECT id, title, salary, equity, company_handle FROM jobs WHERE id = $1",
                  <<jobId>>)
        found == {r \in rows : r.id = jobId}
    IN  Result(IF found = {} THEN "NotFoundError" ELSE "none", rows, <<q>>, found)

Job_update_NoWhere(rows, jobId, data) ==
    IF HasProperty(data, "id") \/ HasProperty(data, "company_handle")
    THEN Result("BadRequestError", rows, <<>>, {})
    ELSE LET r == sqlForPartialUpdate(data, NotPassed)
         IN  IF r.threw THEN Result(r.err, rows, <<>>, {})
             ELSE LET jobIdVarIdx == Len(r.values) + 1
                      params == Append(r.values, jobId)
                      querySql == "UPDATE jobs SET " \o r.setCols
                      q == DbUpdate(rows, JobColumns, "id", r.sets, jobIdVarIdx, params)
                  IN  IF q.err # "none"
                      THEN Result(q.err, rows, <<Stmt(querySql, params)>>, {})
                      ELSE IF q.ret = {}
                      THEN Result("NotFoundError", q.rows, <<Stmt(querySql, params)>>, {})
                      ELSE Result("none", {ApplySets(x, r.sets, params) : x \in rows},
                                  <<Stmt(querySql, params)>>, q.ret)

Job_update(rows, jobId, data) ==
    IF HasProperty(data, "id") \/ HasProperty(data, "company_handle")
    THEN Result("BadRequestError", rows, <<>>, {})
    ELSE LET r == sqlForPartialUpdate(data, NotPassed)
         IN  IF r.threw THEN Result(r.err, rows, <<>>, {})
             ELSE LET jobIdVarIdx == Len(r.values) + 1
                      params == Append(r.values, jobId)
                      querySql == "UPDATE jobs SET " \o r.setCols \o " WHERE id = $"
                                  \o ToString(jobIdVarIdx)
                      q == DbUpdate(rows, JobColumns, "id", r.sets, jobIdVarIdx, params)
                  IN  IF q.err # "none"
                      THEN Result(q.err, rows, <<Stmt(querySql, params)>>, {})
                      ELSE IF q.ret = {}
                      THEN Result("NotFoundError", q.rows, <<Stmt(querySql, params)>>, {})
                      ELSE Result("none", q.rows, <<Stmt(querySql, params)>>, q.ret)

Job_remove_RowKept(rows, jobId) ==
    LET q == Stmt("DELETE FROM jobs WHERE id = $1 RETURNING id", <<jobId>>)
        found == {r \in rows : r.id = jobId}
    IN  Result(IF found = {} THEN "NotFoundError" ELSE "none", rows, <<q>>, found)

Job_remove(rows, jobId) ==
    LET q == Stmt("DELETE FROM jobs WHERE id = $1 RETURNING id", <<jobId>>)
        found == {r \in rows : r.id = jobId}
    IN  Result(IF found = {} THEN "NotFoundError" ELSE "none", rows \ found, <<q>>, found)

(***************************************************************************)
(* Job.findAll.  The values of a query object are JavaScript values: a     *)
(* string is the sequence of its characters, an array is held by the       *)
(* characters of its toString().                                           *)
(***************************************************************************)
JsValue(type, chars, num) == [type |-> type, chars |-> chars, num |-> num]

JsString(chars) == JsValue("string", chars, 0)

JsNumber(n) == JsValue("number", <<>>, n)

JsNaN == JsValue("NaN", <<>>, 0)

JsBoolean(b) == JsValue("boolean", <<>>, IF b THEN 1 ELSE 0)

JsNull == JsValue("null", <<>>, 0)

JsAbsent == JsValue("undefined", <<>>, 0)

JsArray(chars) == JsValue("array", chars, 0)

\* if (v)
ToBoolean(v) ==
    CASE v.type = "string" -> v.chars # <<>>
      [] v.type = "number" -> v.num # 0
      [] v.type = "boolean" -> v.num = 1
      [] v.type = "array" -> TRUE
      [] OTHER -> FALSE

DigitOf ==
    ("0" :> 0) @@ ("1" :> 1) @@ ("2" :> 2) @@ ("3" :> 3) @@ ("4" :> 4) @@
    ("5" :> 5) @@ ("6" :> 6) @@ ("7" :> 7) @@ ("8" :> 8) @@ ("9" :> 9)

RECURSIVE ParseDigits(_)
ParseDigits(chars) ==
    IF Len(chars) = 0 THEN 0
    ELSE ParseDigits(SubSeq(chars, 1, Len(chars) - 1)) * 10 + DigitOf[chars[Len(chars)]]

\* Number(v): a string or an array converts through its characters, and what
\* is not a numeral is NaN.
Number(v) ==
    CASE v.type = "number" -> v
      [] v.type = "boolean" -> JsNumber(v.num)
      [] v.type = "null" -> JsNumber(0)
      [] v.type \in {"string", "array"} ->
            IF \A i \in 1..Len(v.chars) : v.chars[i] \in DOMAIN DigitOf
            THEN JsNumber(ParseDigits(v.chars))
            ELSE JsNaN
      [] OTHER -> JsNaN

RECURSIVE Split(_, _)
\* String.prototype.split(sep) for a one-character separator: the pieces
\* between the separators, the empty ones included.
Split(chars, sep) ==
    IF \A i \in 1..Len(chars) : chars[i] # sep THEN <<chars>>
    ELSE LET i == CHOOSE n \in 1..Len(chars) :
                      chars[n] = sep /\ \A j \in 1..(n - 1) : chars[j] # sep
         IN  <<SubSeq(chars, 1, i - 1)>> \o Split(SubSeq(chars, i + 1, Len(chars)), sep)

\* The queries argument: not passed (the default {} applies) or an object
\* whose absent properties read undefined.
Queries(title, minSalary, hasEquity) ==
    [title |-> title, minSalary |-> minSalary, hasEquity |-> hasEquity]

EmptyQueries == Queries(JsAbsent, JsAbsent, JsAbsent)

QueriesNotPassed == [passed |-> FALSE, spec |-> EmptyQueries]

QueriesPassed(q) == [passed |-> TRUE, spec |-> q]

TrueString == JsString(<<"t", "r", "u", "e">>)

\* A filter as the database reads it: what it tests and its placeholder.
Pred(kind, ph) == [kind |-> kind, ph |-> ph]

SplitThrown ==
    [threw |-> TRUE, err |-> "TypeError", filters |-> <<>>, values |-> <<>>,
     preds |-> <<>>, whereClause |-> ""]

Built(filters, values, preds) ==
    [threw |-> FALSE, err |-> "none", filters |-> filters, values |-> values,
     preds |-> preds,
     whereClause |-> IF Len(filters) > 0 THEN "WHERE " \o Join(filters, " AND ") ELSE ""]

\* `%${word}%`
Wildcarded(word) == JsString(<<"%">> \o word \o <<"%">>)

\* The pushes of the title loop: one filter and one value per piece.
TitleFilters(words) ==
    [filters |-> [i \in 1..Len(words) |-> "title ILIKE $" \o ToString((i - 1) + 1)],
     values  |-> [i \in 1..Len(words) |-> Wildcarded(words[i])],
     preds   |-> [i \in 1..Len(words) |-> Pred("ilike", (i - 1) + 1)]]

PushMinSalary_FixedIndex(b, minSalary) ==
    IF minSalary # JsNull
    THEN [filters |-> Append(b.filters, "salary >= $1 "),
          values  |-> Append(b.values, Number(minSalary)),
          preds   |-> Append(b.preds, Pred("gte", 1))]
    ELSE b

\* if (minSalary !== null) { push; push }
PushMinSalary(b, minSalary) ==
    IF minSalary # JsNull
    THEN [filters |-> Append(b.filters, "salary >= $" \o ToString(Len(b.values) + 1) \o " "),
          values  |-> Append(b.values, Number(minSalary)),
          preds   |-> Append(b.preds, Pred("gte", Len(b.values) + 1))]
    ELSE b

\* if (hasEquityBoolean) { push; push }
PushHasEquity(b, hasEquityBoolean) ==
    IF hasEquityBoolean
    THEN [filters |-> Append(b.filters, "equity > $" \o ToString(Len(b.values) + 1)
                                        \o " AND equity IS NOT NULL"),
          values  |-> Append(b.values, JsNumber(0)),
          preds   |-> Append(b.preds, Pred("gt0", Len(b.values) + 1))]
    ELSE b

BuildFilters_TruthyEquity(queriesArg) ==
    LET queries == IF queriesArg.passed THEN queriesArg.spec ELSE EmptyQueries
        title == IF queries.title = JsAbsent THEN JsString(<<>>) ELSE queries.title
        minSalary == IF queries.minSalary = JsAbsent THEN JsNull ELSE queries.minSalary
        hasEquityBoolean == ToBoolean(queries.hasEquity)
        none == [filters |-> <<>>, values |-> <<>>, preds |-> <<>>]
    IN  IF ToBoolean(title) /\ title.type # "string" THEN SplitThrown
        ELSE LET b1 == IF ToBoolean(title) THEN TitleFilters(Split(title.chars, " "))
                       ELSE none
                 b2 == PushMinSalary(b1, minSalary)
                 b3 == PushHasEquity(b2, hasEquityBoolean)
             IN  Built(b3.filters, b3.values, b3.preds)

\* The filter-building part of Job.findAll: queryFilters, queryValues and the
\* WHERE clause, or the throw of title.split on a title that has no split.
BuildFilters(queriesArg) ==
    LET queries == IF queriesArg.passed THEN queriesArg.spec ELSE EmptyQueries
        title == IF queries.title = JsAbsent THEN JsString(<<>>) ELSE queries.title
        minSalary == IF queries.minSalary = JsAbsent THEN JsNull ELSE queries.minSalary
        hasEquityBoolean == queries.hasEquity = TrueString
        none == [filters |-> <<>>, values |-> <<>>, preds |-> <<>>]
    IN  IF ToBoolean(title) /\ title.type # "string" THEN SplitThrown
        ELSE LET b1 == IF ToBoolean(title) THEN TitleFilters(Split(title.chars, " "))
                       ELSE none
                 b2 == PushMinSalary(b1, minSalary)
                 b3 == PushHasEquity(b2, hasEquityBoolean)
             IN  Built(b3.filters, b3.values, b3.preds)

\* The database's reading of the stored values the model uses: a title as
\* its characters, a salary as its integer.
TextValue ==
    ("'j1'" :> <<"j", "1">>) @@ ("'j2'" :> <<"j", "2">>) @@ ("'j3'" :> <<"j", "3">>) @@
    ("'New'" :> <<"N", "e", "w">>) @@
    ("'New title'" :> <<"N", "e", "w", " ", "t", "i", "t", "l", "e">>) @@
    ("'update'" :> <<"u", "p", "d", "a", "t", "e">>)

IntegerValue ==
    ("10000" :> 10000) @@ ("50000" :> 50000) @@ ("100000" :> 100000) @@
    ("99999" :> 99999) @@ ("75000" :> 75000)

\* equity IS NOT NULL and equity > 0, for a stored NUMERIC
NumericPositive(v) == v \notin {"null", "'0'", "0"}

UpperCase ==
    <<"A", "B", "C", "D", "E", "F", "G", "H", "I", "J", "K", "L", "M",
      "N", "O", "P", "Q", "R", "S", "T", "U", "V", "W", "X", "Y", "Z">>

LowerCase ==
    <<"a", "b", "c", "d", "e", "f", "g", "h", "i", "j", "k", "l", "m",
      "n", "o", "p", "q", "r", "s", "t", "u", "v", "w", "x", "y", "z">>

Lower(c) ==
    IF \E i \in 1..Len(UpperCase) : UpperCase[i] = c
    THEN LowerCase[CHOOSE i \in 1..Len(UpperCase) : UpperCase[i] = c]
    ELSE c

RECURSIVE Like(_, _)
\* text ILIKE pattern: % matches any run of characters, _ any one character,
\* every other character itself whatever its case.
Like(text, pattern) ==
    IF Len(pattern) = 0 THEN Len(text) = 0
    ELSE IF Head(pattern) = "%"
    THEN Like(text, Tail(pattern)) \/ (Len(text) > 0 /\ Like(Tail(text), pattern))
    ELSE /\ Len(text) > 0
         /\ Head(pattern) = "_" \/ Lower(Head(text)) = Lower(Head(pattern))
         /\ Like(Tail(text), Tail(pattern))

\* The order of ORDER BY title: character by character, digits before
\* letters, a shorter title before its extensions.
CollationOrder == <<" ", "0", "1", "2", "3", "4", "5", "6", "7", "8", "9">> \o LowerCase

CollationRank(c) ==
    IF \E i \in 1..Len(CollationOrder) : CollationOrder[i] = Lower(c)
    THEN CHOOSE i \in 1..Len(CollationOrder) : CollationOrder[i] = Lower(c)
    ELSE 0

RECURSIVE TextLeq(_, _)
TextLeq(a, b) ==
    IF Len(a) = 0 THEN TRUE
    ELSE IF Len(b) = 0 THEN FALSE
    ELSE IF CollationRank(Head(a)) # CollationRank(Head(b))
    THEN CollationRank(Head(a)) < CollationRank(Head(b))
    ELSE TextLeq(Tail(a), Tail(b))

\* The rows of a set in title order (rows of equal title in one of their
\* orders).
OrderByTitle(rows) ==
    CHOOSE s \in [1..Cardinality(rows) -> rows] :
        /\ \A i, j \in 1..Cardinality(rows) : i # j => s[i] # s[j]
        /\ \A i \in 1..(Cardinality(rows) - 1) :
              TextLeq(TextValue[s[i].title], TextValue[s[i + 1].title])

\* One filter of the WHERE clause on one row.  A comparison with NULL is not
\* true.
PredHolds(row, pred, params) ==
    CASE pred.kind = "ilike" -> Like(TextValue[row.title], params[pred.ph].chars)
      [] pred.kind = "gte" ->
            row.salary # "null" /\ IntegerValue[row.salary] >= params[pred.ph].num
      [] pred.kind = "gt0" -> NumericPositive(row.equity)

\* SELECT ... FROM jobs [WHERE <preds joined by AND>] ORDER BY title.  The
\* statement fails on a placeholder without a parameter and on a salary
\* bound that is not an integer (NaN).
DbSelect(rows, preds, params) ==
    LET bad == \/ \E i \in 1..Len(preds) : preds[i].ph < 1 \/ preds[i].ph > Len(params)
               \/ \E i \in 1..Len(preds) :
                     /\ preds[i].kind = "gte"
                     /\ preds[i].ph \in 1..Len(params)
                     /\ params[preds[i].ph].type # "number"
        hit == IF bad THEN {}
               ELSE {r \in rows : \A i \in 1..Len(preds) : PredHolds(r, preds[i], params)}
    IN  [err |-> IF bad THEN "DbError" ELSE "none", rows |-> OrderByTitle(hit)]

FindResult(e, st, ret) == [err |-> e, stmts |-> st, rows |-> ret]

Job_findAll_MatchNothing(rows, queriesArg) ==
    LET b == BuildFilters(queriesArg)
    IN  IF b.threw THEN FindResult(b.err, <<>>, <<>>)
        ELSE LET sql == "SELECT id, title, salary, equity, company_handle FROM jobs "
                        \o (IF Len(b.filters) > 0 THEN b.whereClause ELSE "WHERE FALSE")
                        \o " ORDER BY title"
                 q == DbSelect(IF Len(b.filters) > 0 THEN rows ELSE {}, b.preds, b.values)
             IN  FindResult(q.err, <<Stmt(sql, b.values)>>, q.rows)

Job_findAll(rows, queriesArg) ==
    LET b == BuildFilters(queriesArg)
    IN  IF b.threw THEN FindResult(b.err, <<>>, <<>>)
        ELSE LET sql == "SELECT id, title, salary, equity, company_handle FROM jobs "
                        \o b.whereClause \o " ORDER BY title"
                 q == DbSelect(rows, b.preds, b.values)
             IN  FindResult(q.err, <<Stmt(sql, b.values)>>, q.rows)

(***************************************************************************)
(* models/user.js                                                          *)
(***************************************************************************)
UserJsToSql ==
    [firstName |-> "first_name", lastName |-> "last_name", isAdmin |-> "is_admin"]

User_get(rows, username) ==
    LET q1 == Stmt("SELECT username, first_name, last_name, email, is_admin FROM users WHERE username = $1",
                   <<username>>)
        q2 == Stmt("SELECT a.job_id, j.title, j.salary, j.equity, j.company_handle FROM applications AS a JOIN jobs AS j ON a.job_id = j.id WHERE a.username = $1",
                   <<username>>)
        found == {r \in rows : r.username = username}
    IN  Result(IF found = {} THEN "NotFoundError" ELSE "none", rows, <<q1, q2>>, found)

\* data.password = await bcrypt.hash(data.password, ...) when data.password
HashPassword(data) ==
    IF Truthy(GetOwn(data, "password"))
    THEN [i \in 1..Len(data) |->
            IF data[i].k = "password" THEN [k |-> "password", v |-> Hash(data[i].v)]
            ELSE data[i]]
    ELSE data

User_update_IdentifierFirst(rows, username, data) ==
    LET hashed == HashPassword(data)
        r == sqlForPartialUpdate(hashed, Passed(UserJsToSql))
    IN  IF r.threw THEN Result(r.err, rows, <<>>, {})
        ELSE LET usernameVarIdx == Len(r.values) + 1
                 params == <<username>> \o r.values
                 querySql == "UPDATE users SET " \o r.setCols \o " WHERE username = $"
                             \o ToString(usernameVarIdx)
                 q == DbUpdate(rows, UserColumns, "username", r.sets, usernameVarIdx, params)
             IN  IF q.err # "none"
                 THEN Result(q.err, rows, <<Stmt(querySql, params)>>, {})
                 ELSE IF q.ret = {}
                 THEN Result("NotFoundError", q.rows, <<Stmt(querySql, params)>>, {})
                 ELSE Result("none", q.rows, <<Stmt(querySql, params)>>, q.ret)

User_update(rows, username, data) ==
    LET hashed == HashPassword(data)
        r == sqlForPartialUpdate(hashed, Passed(UserJsToSql))
    IN  IF r.threw THEN Result(r.err, rows, <<>>, {})
        ELSE LET usernameVarIdx == Len(r.values) + 1
                 params == Append(r.values, username)
                 querySql == "UPDATE users SET " \o r.setCols \o " WHERE username = $"
                             \o ToString(usernameVarIdx)
                 q == DbUpdate(rows, UserColumns, "username", r.sets, usernameVarIdx, params)
             IN  IF q.err # "none"
                 THEN Result(q.err, rows, <<Stmt(querySql, params)>>, {})
                 ELSE IF q.ret = {}
                 THEN Result("NotFoundError", q.rows, <<Stmt(querySql, params)>>, {})
                 ELSE Result("none", q.rows, <<Stmt(querySql, params)>>, q.ret)

User_remove(rows, username) ==
    LET q == Stmt("DELETE FROM users WHERE username = $1 RETURNING username", <<username>>)
        found == {r \in rows : r.username = username}
    IN  Result(IF found = {} THEN "NotFoundError" ELSE "none", rows \ found, <<q>>, found)

(***************************************************************************)
(* The seeded database (testHelpers/_testRoutesCommon.js).                 *)
(***************************************************************************)
JobRow(id, title, salary, equity, handle) ==
    [id |-> id, title |-> title, salary |-> salary, equity |-> equity,
     company_handle |-> handle]

SeedJobs ==
    { JobRow(1, "'j1'", "10000", "null", "'c1'"),
      JobRow(2, "'j2'", "50000", "null", "'c2'"),
      JobRow(3, "'j3'", "100000", "'0.123'", "'c1'") }

UserRow(username, first, last, email, password, admin) ==
    [username |-> username, first_name |-> first, last_name |-> last,
     email |-> email, password |-> password, is_admin |-> admin]

SeedUsers ==
    { UserRow("u1", "'U1F'", "'U1L'", "'user1@user.com'", Hash("'password1'"), "false"),
      UserRow("u2", "'U2F'", "'U2L'", "'user2@user.com'", Hash("'password2'"), "false"),
      UserRow("u3", "'U3F'", "'U3L'", "'user3@user.com'", Hash("'password3'"), "false"),
      UserRow("admin", "'adminFirst'", "'adminLast'", "'admin@user.com'", Hash("'adminpass'"), "true") }

SeedNextId == 4

(***************************************************************************)
(* Requests.                                                               *)
(***************************************************************************)
Prop(k, v) == [k |-> k, v |-> v]

Body(valid, data) == [valid |-> valid, data |-> data]

NoBody == Body(TRUE, <<>>)

\* req.params.id and req.params.username of the requests enumerated
JobIds == {1, 99}

OwnerRefs == {"u1", "nope"}

NewJob ==
    << Prop("title", "'New title'"), Prop("salary", "75000"),
       Prop("equity", "0.789"), Prop("companyHandle", "'c1'") >>

PostBodies ==
    { Body(TRUE, NewJob),
      Body(FALSE, << Prop("title", "'New title'"), Prop("salary", "'Not a Number'"),
                     Prop("equity", "0.789"), Prop("companyHandle", "'c1'") >>),
      Body(TRUE, << Prop("title", "'j1'"), Prop("salary", "75000"),
                    Prop("equity", "0.789"), Prop("companyHandle", "'c1'") >>) }

PatchJobBodies ==
    { Body(TRUE, << Prop("title", "'update'") >>),
      Body(FALSE, << Prop("salary", "'10000'") >>),
      Body(TRUE, <<>>) }

PatchUserBodies ==
    { Body(TRUE, << Prop("firstName", "'New'") >>),
      Body(FALSE, << Prop("firstName", "42") >>),
      Body(TRUE, <<>>) }

Request(route, ids, names, bodies) ==
    [route : {route}, header : Headers, id : ids, username : names, body : bodies]

Requests ==
    Request("POST /jobs", {0}, {""}, PostBodies)
    \cup Request("GET /jobs/:id", JobIds, {""}, {NoBody})
    \cup Request("PATCH /jobs/:id", JobIds, {""}, PatchJobBodies)
    \cup Request("DELETE /jobs/:id", JobIds, {""}, {NoBody})
    \cup Request("GET /users/:username", {0}, OwnerRefs, {NoBody})
    \cup Request("PATCH /users/:username", {0}, OwnerRefs, PatchUserBodies)
    \cup Request("DELETE /users/:username", {0}, OwnerRefs, {NoBody})

NoRequest == [route |-> "none", header |-> NoHeader, id |-> 0, username |-> "",
              body |-> NoBody]

JobWriteRoutes == {"POST /jobs", "PATCH /jobs/:id", "DELETE /jobs/:id"}

UserRoutes ==
    {"GET /users/:username", "PATCH /users/:username", "DELETE /users/:username"}

\* router.post("/", ensureLoggedIn, ensureAdmin, ...), and the same for
\* router.patch("/:id", ...) and router.delete("/:id", ...)
JobWriteChain == <<"ensureLoggedIn", "ensureAdmin">>

\* The /users/:username routes: login, then owner or admin
UserChain == <<"ensureLoggedIn", "ensureOwnerOrAdmin">>

\* The middleware each route declares before its handler.
Chain(route) ==
    CASE route \in JobWriteRoutes -> JobWriteChain
      [] route \in UserRoutes -> UserChain
      [] OTHER -> <<>>

\* jsonschema.validate(req.body, schema).valid
SchemaValid(body) == body.valid

\* Where a request goes after a middleware: on to the next one after next(),
\* to the error handler after next(err).
AfterNext(out) == IF out = "none" THEN "chain" ELSE "error"

(***************************************************************************)
(* State.                                                                  *)
(***************************************************************************)
NoUnit == [mw |-> "none", header |-> NoHeader, user |-> NoUser, username |-> "",
           out |-> "none", userAfter |-> NoUser]

NoSqlCall == [called |-> FALSE, dataToUpdate |-> <<>>, jsToSql |-> NotPassed,
              jsToSqlAfter |-> NotPassed, result |-> NoDataThrown]

NoModelCall == [method |-> "none", id |-> 0, username |-> "", data |-> <<>>,
                res |-> Result("none", {}, <<>>, {})]

NoFindCall == [called |-> FALSE, queries |-> QueriesNotPassed,
               built |-> SplitThrown, res |-> FindResult("none", <<>>, <<>>)]

\* The concurrent requests that call Job.create, and one that is not in a
\* call
Requesters == 1..MaxRequesters

NotCreating == [pc |-> "idle", data |-> <<>>, duplicate |-> FALSE,
                stored |-> FALSE, err |-> "none", inserted |-> FALSE]

Init ==
    /\ req = NoRequest
    /\ locals = NoUser
    /\ pc = "idle"
    /\ mwIdx = 1
    /\ ran = <<>>
    /\ err = "none"
    /\ status = 0
    /\ jobs = SeedJobs
    /\ jobs0 = SeedJobs
    /\ users = SeedUsers
    /\ users0 = SeedUsers
    /\ nextId = SeedNextId
    /\ stmts = <<>>
    /\ unit = NoUnit
    /\ sqlCall = NoSqlCall
    /\ modelCall = NoModelCall
    /\ findCall = NoFindCall
    /\ applications = {}
    /\ applications0 = {}
    /\ creating = [p \in Requesters |-> NotCreating]

\* What a request through the routes modelled and a direct call leave alone
restVars == <<applications, applications0, creating>>

callVars == <<unit, sqlCall, modelCall, findCall>>

dbVars == <<jobs, users, nextId>>

(***************************************************************************)
(* A request through the application: authenticateJWT (app-wide), then the *)
(* route's middleware in the order declared, then its handler; next(err)   *)
(* anywhere goes to the error handler.                                     *)
(***************************************************************************)
Receive(r) ==
    /\ pc \in {"idle", "done"}
    /\ r.route = "POST /jobs" => nextId < SeedNextId + MaxCreated
    /\ req' = r
    /\ locals' = NoUser
    /\ pc' = "authenticateJWT"
    /\ mwIdx' = 1
    /\ ran' = <<>>
    /\ err' = "none"
    /\ status' = 0
    /\ jobs0' = jobs
    /\ users0' = users
    /\ stmts' = <<>>
    /\ UNCHANGED <<dbVars, callVars, restVars>>

RunAuthenticateJWT ==
    /\ pc = "authenticateJWT"
    /\ LET r == authenticateJWT(req.header, locals)
       IN  /\ locals' = r.user
           /\ err' = r.err
           /\ pc' = AfterNext(r.err)
    /\ ran' = Append(ran, "authenticateJWT")
    /\ UNCHANGED <<req, mwIdx, status, jobs0, users0, stmts, dbVars, callVars, restVars>>

AtMiddleware(name) ==
    /\ pc = "chain"
    /\ mwIdx <= Len(Chain(req.route))
    /\ Chain(req.route)[mwIdx] = name

AfterMiddleware(name, out) ==
    /\ ran' = Append(ran, name)
    /\ pc' = AfterNext(out)
    /\ err' = IF out = "none" THEN err ELSE out
    /\ mwIdx' = IF AfterNext(out) = "chain" THEN mwIdx + 1 ELSE mwIdx
    /\ UNCHANGED <<req, locals, status, jobs0, users0, stmts, dbVars, callVars, restVars>>

RunEnsureLoggedIn ==
    /\ AtMiddleware("ensureLoggedIn")
    /\ AfterMiddleware("ensureLoggedIn", ensureLoggedIn(locals))

RunEnsureAdmin ==
    /\ AtMiddleware("ensureAdmin")
    /\ AfterMiddleware("ensureAdmin", ensureAdmin(locals))

RunEnsureOwnerOrAdmin ==
    /\ AtMiddleware("ensureOwnerOrAdmin")
    /\ AfterMiddleware("ensureOwnerOrAdmin", ensureOwnerOrAdmin(locals, req.username))

AtHandler(route) ==
    /\ pc = "chain"
    /\ mwIdx = Len(Chain(req.route)) + 1
    /\ req.route = route

\* res.status(code).json(...) after the model call, or next(err)
Respond(res, code) ==
    /\ ran' = Append(ran, "handler")
    /\ stmts' = res.stmts
    /\ IF res.err = "none"
       THEN pc' = "done" /\ status' = code /\ err' = err
       ELSE pc' = "error" /\ status' = status /\ err' = res.err
    /\ UNCHANGED <<req, locals, mwIdx, jobs0, users0, callVars, restVars>>

Invalid(rows) == Result("BadRequestError", rows, <<>>, {})

PostJob ==
    /\ AtHandler("POST /jobs")
    /\ LET c == IF SchemaValid(req.body) THEN Job_create(jobs, nextId, req.body.data)
                ELSE [res |-> Invalid(jobs), seq |-> nextId]
       IN  /\ jobs' = c.res.rows
           /\ nextId' = c.seq
           /\ Respond(c.res, 201)
    /\ UNCHANGED users

GetJob ==
    /\ AtHandler("GET /jobs/:id")
    /\ Respond(Job_get(jobs, req.id), 200)
    /\ UNCHANGED dbVars

PatchJob ==
    /\ AtHandler("PATCH /jobs/:id")
    /\ LET res == IF SchemaValid(req.body) THEN Job_update(jobs, req.id, req.body.data)
                  ELSE Invalid(jobs)
       IN  /\ jobs' = res.rows
           /\ Respond(res, 200)
    /\ UNCHANGED <<users, nextId>>

DeleteJob ==
    /\ AtHandler("DELETE /jobs/:id")
    /\ LET res == Job_remove(jobs, req.id)
       IN  /\ jobs' = res.rows
           /\ Respond(res, 200)
    /\ UNCHANGED <<users, nextId>>

GetUser ==
    /\ AtHandler("GET /users/:username")
    /\ Respond(User_get(users, req.username), 200)
    /\ UNCHANGED dbVars

PatchUser ==
    /\ AtHandler("PATCH /users/:username")
    /\ LET res == IF SchemaValid(req.body) THEN User_update(users, req.username, req.body.data)
                  ELSE Invalid(users)
       IN  /\ users' = res.rows
           /\ Respond(res, 200)
    /\ UNCHANGED <<jobs, nextId>>

DeleteUser ==
    /\ AtHandler("DELETE /users/:username")
    /\ LET res == User_remove(users, req.username)
       IN  /\ users' = res.rows
           /\ Respond(res, 200)
    /\ UNCHANGED <<jobs, nextId>>

\* The application's error handler: res.status(err.status || 500)
ErrorHandler ==
    /\ pc = "error"
    /\ status' = StatusOf(err)
    /\ pc' = "done"
    /\ UNCHANGED <<req, locals, mwIdx, ran, err, jobs0, users0, stmts, dbVars, callVars, restVars>>

Next ==
    \/ \E r \in Requests : Receive(r)
    \/ RunAuthenticateJWT
    \/ RunEnsureLoggedIn
    \/ RunEnsureAdmin
    \/ RunEnsureOwnerOrAdmin
    \/ PostJob
    \/ GetJob
    \/ PatchJob
    \/ DeleteJob
    \/ GetUser
    \/ PatchUser
    \/ DeleteUser
    \/ ErrorHandler

Spec == Init /\ [][Next]_vars

(***************************************************************************)
(* Direct calls of the exported functions, as the unit tests make them:    *)
(* one middleware on a given res.locals.user, sqlForPartialUpdate on a     *)
(* given spec and table, Job.update and User.update on given data.         *)
(***************************************************************************)
PropSeqs(ValuesOf, n) ==
    { o \in [1..n -> UNION { [k : {key}, v : ValuesOf[key]] : key \in DOMAIN ValuesOf }] :
        \A i, j \in 1..n : i # j => o[i].k # o[j].k }

\* The object literals with at most MaxKeys of the given keys, each key with
\* one of its values
UpdateSpecs(ValuesOf) ==
    UNION { PropSeqs(ValuesOf, n) : n \in 0..MaxKeys }

SqlValuesOf ==
    [firstName |-> {"'Aliya'"}, age |-> {"32"}, constructor |-> {"1"}]

JsToSqlArgs ==
    { NotPassed,
      Passed(EmptyObject),
      Passed([firstName |-> "first_name", age |-> "age"]) }

JobUpdateValuesOf ==
    [title |-> {"'New'"}, salary |-> {"99999", "null"}, equity |-> {"'0.321'", "'0'"},
     id |-> {"5"}, company_handle |-> {"'c3'"}, companyHandle |-> {"'c3'"},
     constructor |-> {"1"}]

\* What the database does with the INSERT of an application whose username
\* is no user's: the schema script is not part of the sources, so the row is
\* either rejected by a reference from applications to users or stored.
UnknownUserOutcomes == {"rejected", "stored"}

User_apply(rows, jobRows, userRows, username, jobId, unknownUser) ==
    LET q1 == Stmt("SELECT id FROM jobs WHERE id = $1", <<jobId>>)
        q2 == Stmt("SELECT * FROM applications WHERE username = $1 AND job_id = $2",
                   <<username, jobId>>)
        q3 == Stmt("INSERT INTO applications (username, job_id) VALUES ($1, $2) "
                   \o "RETURNING username, job_id as \"jobId\"", <<username, jobId>>)
        jobResults == {r \in jobRows : r.id = jobId}
        applicationResults == {a \in rows : a.username = username /\ a.job_id = jobId}
        application == [username |-> username, job_id |-> jobId]
    IN  IF jobResults = {}
        THEN Result("BadRequestError", rows, <<q1, q2>>, {})
        ELSE IF applicationResults # {}
        THEN Result("BadRequestError", rows, <<q1, q2>>, {})
        ELSE IF (\A u \in userRows : u.username # username) /\ unknownUser = "rejected"
        THEN Result("DbError", rows, <<q1, q2, q3>>, {})
        ELSE Result("none", rows \cup {application}, <<q1, q2, q3>>, {application})

UserUpdateValuesOf ==
    [firstName |-> {"'New'"}, password |-> {"'new-password'"}]

\* The usernames ensureOwnerOrAdmin is called with
ParamUsernames == Usernames \cup {"nope"}

NoCall == <<NoUnit, NoSqlCall, NoModelCall, NoFindCall>>

\* A call is made when the one before has returned and has been looked at.
DirectCall ==
    /\ pc = "idle"
    /\ callVars = NoCall
    /\ jobs0' = jobs
    /\ users0' = users
    /\ applications0' = applications
    /\ UNCHANGED <<req, locals, pc, mwIdx, ran, err, status, nextId, creating>>

\* The caller is done with the outcome of its call; the tables stay as the
\* call left them.
CallReturns ==
    /\ pc = "idle"
    /\ callVars # NoCall
    /\ unit' = NoUnit
    /\ sqlCall' = NoSqlCall
    /\ modelCall' = NoModelCall
    /\ findCall' = NoFindCall
    /\ stmts' = <<>>
    /\ jobs0' = jobs
    /\ users0' = users
    /\ applications0' = applications
    /\ UNCHANGED <<req, locals, pc, mwIdx, ran, err, status, nextId, jobs, users,
                   applications, creating>>

UnitCall(mw, h, user, username, out, after) ==
    /\ DirectCall
    /\ unit' = [mw |-> mw, header |-> h, user |-> user, username |-> username,
                out |-> out, userAfter |-> after]
    /\ sqlCall' = NoSqlCall
    /\ modelCall' = NoModelCall
    /\ findCall' = NoFindCall
    /\ stmts' = <<>>
    /\ UNCHANGED <<jobs, users, applications>>

CallAuthenticateJWT ==
    \E h \in Headers :
        LET r == authenticateJWT(h, NoUser)
        IN  UnitCall("authenticateJWT", h, NoUser, "", r.err, r.user)

CallEnsureLoggedIn ==
    \E user \in Actors :
        UnitCall("ensureLoggedIn", NoHeader, user, "", ensureLoggedIn(user), user)

CallEnsureAdmin ==
    \E user \in Actors :
        UnitCall("ensureAdmin", NoHeader, user, "", ensureAdmin(user), user)

CallEnsureOwnerOrAdmin ==
    \E user \in Actors, username \in ParamUsernames :
        UnitCall("ensureOwnerOrAdmin", NoHeader, user, username,
                 ensureOwnerOrAdmin(user, username), user)

CallSqlForPartialUpdate ==
    \E dataToUpdate \in UpdateSpecs(SqlValuesOf), jsToSql \in JsToSqlArgs :
        /\ DirectCall
        /\ sqlCall' = [called |-> TRUE, dataToUpdate |-> dataToUpdate,
                       jsToSql |-> jsToSql, jsToSqlAfter |-> jsToSql,
                       result |-> sqlForPartialUpdate(dataToUpdate, jsToSql)]
        /\ unit' = NoUnit
        /\ modelCall' = NoModelCall
        /\ findCall' = NoFindCall
        /\ stmts' = <<>>
        /\ UNCHANGED <<jobs, users, applications>>

ModelCall(method, id, username, data, res) ==
    /\ DirectCall
    /\ modelCall' = [method |-> method, id |-> id, username |-> username,
                     data |-> data, res |-> res]
    /\ stmts' = res.stmts
    /\ unit' = NoUnit
    /\ sqlCall' = NoSqlCall
    /\ findCall' = NoFindCall

CallJobUpdate ==
    \E jobId \in JobIds, data \in UpdateSpecs(JobUpdateValuesOf) :
        LET res == Job_update(jobs, jobId, data)
        IN  /\ ModelCall("Job.update", jobId, "", data, res)
            /\ jobs' = res.rows
            /\ UNCHANGED <<users, applications>>

CallUserUpdate ==
    \E username \in OwnerRefs, data \in UpdateSpecs(UserUpdateValuesOf) :
        LET res == User_update(users, username, data)
        IN  /\ ModelCall("User.update", 0, username, data, res)
            /\ users' = res.rows
            /\ UNCHANGED <<jobs, applications>>

CallJobGet ==
    \E jobId \in JobIds :
        LET res == Job_get(jobs, jobId)
        IN  /\ ModelCall("Job.get", jobId, "", <<>>, res)
            /\ UNCHANGED <<jobs, users, applications>>

\* The schema file is not part of the sources; the applications for a job are
\* taken to be deleted with the job.
CallJobRemove ==
    \E jobId \in JobIds :
        LET res == Job_remove(jobs, jobId)
        IN  /\ ModelCall("Job.remove", jobId, "", <<>>, res)
            /\ jobs' = res.rows
            /\ applications' = {a \in applications : \E j \in res.rows : j.id = a.job_id}
            /\ UNCHANGED users

\* The values of title, minSalary and hasEquity Job.findAll is called with
TitleValues ==
    { JsAbsent, JsString(<<>>),
      JsString(<<"j", "1">>), JsString(<<"J", "1">>), JsString(<<"z">>),
      JsString(<<"j", " ", "1">>), JsString(<<"j", " ", " ", "1">>),
      JsString(<<" ", "j", "1">>), JsString(<<"j", "\t", "1">>),
      JsString(<<"_", "1">>),
      JsArray(<<"j", "1", ",", "j", "2">>) }

MinSalaryValues ==
    { JsAbsent, JsNull, JsNumber(40000), JsString(<<"4", "0", "0", "0", "0">>),
      JsString(<<>>), JsString(<<"a", "b", "c">>) }

HasEquityValues ==
    { JsAbsent, TrueString, JsString(<<"f", "a", "l", "s", "e">>),
      JsString(<<"y", "e", "s">>), JsBoolean(TRUE), JsBoolean(FALSE) }

FilterSpecs ==
    { Queries(t, m, h) : t \in TitleValues, m \in MinSalaryValues, h \in HasEquityValues }

FilterSpecArgs == {QueriesNotPassed} \cup { QueriesPassed(q) : q \in FilterSpecs }

CallJobFindAll ==
    \E queries \in FilterSpecArgs :
        LET res == Job_findAll(jobs, queries)
        IN  /\ DirectCall
            /\ findCall' = [called |-> TRUE, queries |-> queries,
                            built |-> BuildFilters(queries), res |-> res]
            /\ stmts' = res.stmts
            /\ unit' = NoUnit
            /\ sqlCall' = NoSqlCall
            /\ modelCall' = NoModelCall
            /\ UNCHANGED <<jobs, users, applications>>

NextCalls ==
    \/ CallReturns
    \/ CallJobFindAll
    \/ CallAuthenticateJWT
    \/ CallEnsureLoggedIn
    \/ CallEnsureAdmin
    \/ CallEnsureOwnerOrAdmin
    \/ CallSqlForPartialUpdate
    \/ CallJobUpdate
    \/ CallUserUpdate
    \/ CallJobGet
    \/ CallJobRemove

SpecCalls == Init /\ [][NextCalls]_vars

\* The users and jobs User.apply is called with: users and jobs that are
\* stored, and one of each that is not
ApplyUsernames == {"u1", "u2", "nope"}

ApplyJobIds == {1, 2, 99}

CallUserApply ==
    \E username \in ApplyUsernames, jobId \in ApplyJobIds,
       unknownUser \in UnknownUserOutcomes :
        LET res == User_apply(applications, jobs, users, username, jobId, unknownUser)
        IN  /\ ModelCall("User.apply", jobId, username, <<>>, res)
            /\ applications' = res.rows
            /\ UNCHANGED <<jobs, users>>

\* Calls of User.apply, among removals of jobs
NextApply ==
    \/ CallReturns
    \/ CallUserApply
    \/ CallJobRemove

SpecApply == Init /\ [][NextApply]_vars

\* The jobs concurrent requests create: a new title and a seeded one, for
\* either seeded company
CreateSpecs ==
    { << Prop("title", t), Prop("salary", "75000"), Prop("equity", "null"),
         Prop("companyHandle", c) >> : t \in {"'New title'", "'j1'"}, c \in {"'c1'", "'c2'"} }

\* What the steps of Job.create leave alone
createFrame == <<req, locals, pc, mwIdx, ran, err, status, jobs0, users0, users, stmts,
                 callVars, applications, applications0>>

\* A request calls Job.create: the duplicate check is sent and answered.
CreateCheck(p) ==
    /\ creating[p].pc = "idle"
    /\ nextId < SeedNextId + MaxInserted
    /\ \E data \in CreateSpecs :
          creating' = [creating EXCEPT ![p] =
                          [pc |-> "checked", data |-> data,
                           duplicate |-> Job_create_duplicateCheck(jobs, data) # {},
                           stored |-> FALSE, err |-> "none", inserted |-> FALSE]]
    /\ UNCHANGED <<jobs, nextId, createFrame>>

\* The call goes on after the answer: it throws if the check returned a row
\* and sends the INSERT otherwise.
CreateInsert(p) ==
    /\ creating[p].pc = "checked"
    /\ LET c == creating[p]
           present == Job_create_duplicateCheck(jobs, c.data) # {}
       IN  IF c.duplicate
           THEN /\ creating' = [creating EXCEPT ![p] =
                                   [c EXCEPT !.pc = "done", !.stored = present,
                                             !.err = "BadRequestError"]]
                /\ UNCHANGED <<jobs, nextId>>
           ELSE \E duplicateRow \in DuplicateRowOutcomes :
                   LET r == Job_create_insert(jobs, nextId, c.data, duplicateRow)
                   IN  /\ creating' = [creating EXCEPT ![p] =
                                          [c EXCEPT !.pc = "done", !.stored = present,
                                                    !.err = r.err,
                                                    !.inserted = (r.rows # jobs)]]
                       /\ jobs' = r.rows
                       /\ nextId' = r.seq
    /\ UNCHANGED createFrame

\* The request is answered.
CreateReturns(p) ==
    /\ creating[p].pc = "done"
    /\ creating' = [creating EXCEPT ![p] = NotCreating]
    /\ UNCHANGED <<jobs, nextId, createFrame>>

NextCreate ==
    \E p \in Requesters :
        \/ CreateCheck(p)
        \/ CreateInsert(p)
        \/ CreateReturns(p)

SpecCreate == Init /\ [][NextCreate]_vars

(***************************************************************************)
(* Properties.                                                             *)
(***************************************************************************)
IsPrefix(a, b) == Len(a) <= Len(b) /\ \A i \in 1..Len(a) : a[i] = b[i]

Ran(name) == \E i \in 1..Len(ran) : ran[i] = name

C2_AdminAlwaysAllowed ==
    (/\ unit.mw = "ensureOwnerOrAdmin"
     /\ unit.user.attached /\ unit.user.isAdmin) => unit.out = "none"

C2_Witness ==
    /\ unit.mw = "ensureOwnerOrAdmin"
    /\ unit.user.attached /\ unit.user.isAdmin
    /\ unit.user.username # unit.username
    /\ unit.out = "none"

C4_OwnerOrAdminTotal ==
    unit.mw = "ensureOwnerOrAdmin" =>
        /\ unit.out \in {"none", "ForbiddenError"}
        /\ unit.out = "none" <=>
              (unit.user.isAdmin \/ unit.user.username = unit.username)

\* C5: ensureLoggedIn allows a request if and only if Actor.username is
\* present: a request whose Actor has no username (no Actor attached, or a
\* verified payload without a username) is denied with Unauthorized.
C5_LoggedInIffUsername ==
    (Len(ran) > 0 /\ ran[Len(ran)] = "ensureLoggedIn") =>
        /\ locals.username # NoUsername => (pc = "chain" /\ err = "none")
        /\ locals.username = NoUsername =>
              (pc \in {"error", "done"} /\ err = "UnauthorizedError")

\* C6: on POST /jobs, PATCH /jobs/:id and DELETE /jobs/:id the steps run in
\* the declared order (ensureLoggedIn, ensureAdmin, handler) and the first
\* failing policy ends the request: no later policy, no validation and no
\* Job method runs, the stored jobs are unchanged and the answer is 401 (no
\* Actor) or 403 (not admin), whatever the body and the job id.
C6_JobWriteChain ==
    (req.route \in JobWriteRoutes /\ Ran("authenticateJWT")) =>
        /\ IsPrefix(ran, <<"authenticateJWT", "ensureLoggedIn", "ensureAdmin", "handler">>)
        /\ ~locals.attached =>
              /\ ~Ran("ensureAdmin") /\ ~Ran("handler")
              /\ jobs = jobs0 /\ stmts = <<>>
              /\ pc = "done" => status = 401
        /\ (locals.attached /\ ~locals.isAdmin) =>
              /\ ~Ran("handler")
              /\ jobs = jobs0 /\ stmts = <<>>
              /\ pc = "done" => status = 403

C6_Witness ==
    /\ req.route = "DELETE /jobs/:id" /\ pc = "done"
    /\ locals = Payload("u1", FALSE)
    /\ req.id = 1 /\ \E j \in jobs : j.id = 1
    /\ status = 403

\* The authorization header carries a token that verifies.
Verifies(h) ==
    /\ h.present
    /\ h.scheme \in {"Bearer ", "bearer ", ""}
    /\ h.token.kind = "valid"

\* C7: authenticateJWT never fails a request: with a missing header, a
\* malformed token or an invalid signature it calls next() without an error
\* and leaves the request anonymous; an Actor (the token's payload) is
\* attached only when the token verifies.
C7_TokenDecodingTolerant ==
    /\ Ran("authenticateJWT") =>
          /\ locals.attached <=> Verifies(req.header)
          /\ locals.attached => locals = req.header.token.payload
          /\ ~Verifies(req.header) => locals = NoUser
    /\ ran = <<"authenticateJWT">> => (pc = "chain" /\ err = "none")

C7_Witness ==
    /\ ran = <<"authenticateJWT">>
    /\ req.header.present /\ req.header.token.kind = "badsig"
    /\ locals = NoUser /\ pc = "chain" /\ err = "none"

\* The translation table a call of sqlForPartialUpdate works with
TableOf(arg) == IF arg.passed THEN arg.map ELSE EmptyObject

\* The column names a fragment for this key can carry: the key itself, the
\* table's entry for it, or what the key inherits from Object.prototype.
ColumnsOfKey(table, key) ==
    {key}
    \cup (IF key \in DOMAIN table THEN {table[key]} ELSE {})
    \cup (IF key \in DOMAIN ObjectPrototype THEN {ObjectPrototype[key]} ELSE {})

\* C8: for every non-empty update spec with N keys and every translation
\* table, sqlForPartialUpdate returns N fragments and N values; the k-th
\* fragment uses placeholder $k and is built from the k-th key, and the k-th
\* value is that key's value: no reordering, no gaps.
C8_FragmentsFollowKeys ==
    (sqlCall.called /\ Len(sqlCall.dataToUpdate) > 0) =>
        LET data == sqlCall.dataToUpdate
            r == sqlCall.result
            N == Len(data)
        IN  /\ ~r.threw
            /\ Len(r.cols) = N
            /\ Len(r.values) = N
            /\ Len(r.sets) = N
            /\ \A k \in 1..N :
                  /\ r.values[k] = data[k].v
                  /\ r.sets[k].ph = k
                  /\ \E c \in ColumnsOfKey(TableOf(sqlCall.jsToSql), data[k].k) :
                        /\ r.cols[k] = "\"" \o c \o "\"=$" \o ToString(k)
                        /\ r.sets[k].col = c
            /\ r.setCols = Join(r.cols, ", ")

C8_Witness ==
    /\ sqlCall.called
    /\ sqlCall.dataToUpdate = << Prop("firstName", "'Aliya'"), Prop("age", "32") >>
    /\ sqlCall.jsToSql = Passed([firstName |-> "first_name", age |-> "age"])
    /\ sqlCall.result.setCols = "\"first_name\"=$1, \"age\"=$2"
    /\ sqlCall.result.values = <<"'Aliya'", "32">>

\* C9: for an empty update spec sqlForPartialUpdate throws BadRequestError
\* "No data" whatever the translation table, and returns no clause; Job.update
\* and User.update with empty data fail with BadRequestError before any
\* statement is executed, and the stored rows are unchanged.
C9_EmptySpecRejected ==
    /\ (sqlCall.called /\ sqlCall.dataToUpdate = <<>>) =>
          /\ sqlCall.result.threw
          /\ sqlCall.result.err = "BadRequestError"
          /\ sqlCall.result.message = "No data"
          /\ sqlCall.result.cols = <<>>
          /\ sqlCall.result.setCols = ""
          /\ sqlCall.result.values = <<>>
    /\ (modelCall.method \in {"Job.update", "User.update"} /\ modelCall.data = <<>>) =>
          /\ modelCall.res.err = "BadRequestError"
          /\ StatusOf(modelCall.res.err) = 400
          /\ stmts = <<>>
          /\ jobs = jobs0
          /\ users = users0

C9_Witness ==
    /\ modelCall.method = "User.update"
    /\ modelCall.username = "u1"
    /\ modelCall.data = <<>>
    /\ modelCall.res.err = "BadRequestError"
    /\ stmts = <<>>

\* C10: for every key of the update spec, the column name in its fragment is
\* the translation table's entry for that key when the table has one, and the
\* key's own name verbatim when it has none (also when no table is passed);
\* the builder never modifies the translation table.
C10_ColumnTranslation ==
    (sqlCall.called /\ ~sqlCall.result.threw) =>
        LET data == sqlCall.dataToUpdate
            table == TableOf(sqlCall.jsToSql)
        IN  /\ \A k \in 1..Len(data) :
                  LET column == IF data[k].k \in DOMAIN table
                                THEN table[data[k].k] ELSE data[k].k
                  IN  /\ sqlCall.result.sets[k].col = column
                      /\ sqlCall.result.cols[k] = "\"" \o column \o "\"=$" \o ToString(k)
            /\ sqlCall.jsToSqlAfter = sqlCall.jsToSql

\* Whitespace characters, and the words of a text: its maximal runs of
\* characters that are not whitespace.
Whitespace == {" ", "\t"}

RECURSIVE WhitespaceWords(_)
WhitespaceWords(chars) ==
    IF Len(chars) = 0 THEN <<>>
    ELSE IF Head(chars) \in Whitespace THEN WhitespaceWords(Tail(chars))
    ELSE LET n == CHOOSE m \in 1..Len(chars) :
                      /\ \A i \in 1..m : chars[i] \notin Whitespace
                      /\ m = Len(chars) \/ chars[m + 1] \in Whitespace
         IN  <<SubSeq(chars, 1, n)>> \o WhitespaceWords(SubSeq(chars, n + 1, Len(chars)))

\* The filter spec of a call, and which of its criteria are active
SpecOf(queriesArg) == IF queriesArg.passed THEN queriesArg.spec ELSE EmptyQueries

TitleActive(q) == q.title.type = "string" /\ q.title.chars # <<>>

MinSalaryActive(q) == q.minSalary \notin {JsAbsent, JsNull}

HasEquityActive(q) == q.hasEquity = TrueString

SameCriteria(a, b) ==
    /\ TitleActive(a) <=> TitleActive(b)
    /\ MinSalaryActive(a) <=> MinSalaryActive(b)
    /\ HasEquityActive(a) <=> HasEquityActive(b)

\* Values a caller may put in place of the ones of an update spec
OtherValues == {"'x'); DROP TABLE users; --'", "0"}

\* C11: no caller-supplied value appears in statement text: two update specs
\* with the same keys in the same order and different values yield the same
\* SET text, and two filter specs that activate the same criteria with the
\* same number of title words and different values yield the same WHERE text.
C11_ValuesNeverInText ==
    /\ (sqlCall.called /\ ~sqlCall.result.threw) =>
          \A vals \in [1..Len(sqlCall.dataToUpdate) -> OtherValues] :
              sqlForPartialUpdate([i \in 1..Len(sqlCall.dataToUpdate) |->
                                      Prop(sqlCall.dataToUpdate[i].k, vals[i])],
                                  sqlCall.jsToSql).setCols = sqlCall.result.setCols
    /\ (findCall.called /\ ~findCall.built.threw) =>
          \A other \in FilterSpecArgs :
              (/\ ~BuildFilters(other).threw
               /\ SameCriteria(SpecOf(findCall.queries), SpecOf(other))
               /\ Len(WhitespaceWords(SpecOf(findCall.queries).title.chars))
                     = Len(WhitespaceWords(SpecOf(other).title.chars)))
              => BuildFilters(other).whereClause = findCall.built.whereClause

\* The translation table of each caller of sqlForPartialUpdate, and the
\* statement text around its SET clause
UpdateTable(method) == IF method = "User.update" THEN UserJsToSql ELSE EmptyObject

UpdateText(method, setCols, n) ==
    IF method = "User.update"
    THEN "UPDATE users SET " \o setCols \o " WHERE username = $" \o ToString(n + 1)
    ELSE "UPDATE jobs SET " \o setCols \o " WHERE id = $" \o ToString(n + 1)

\* The column names a translation table holds
TableColumns(table) == {table[k] : k \in DOMAIN table}

ColumnOfKey(table, key) ==
    IF key \in DOMAIN table THEN table[key]
    ELSE IF key \in DOMAIN ObjectPrototype THEN ObjectPrototype[key]
    ELSE key

Returned == {findCall.res.rows[i] : i \in 1..Len(findCall.res.rows)}

\* No criterion of the filter spec is active: no title or an empty one, no
\* minSalary or null, and a hasEquity that is not "true"
ZeroCriteria(q) ==
    /\ q.title \in {JsAbsent, JsString(<<>>)}
    /\ q.minSalary \in {JsAbsent, JsNull}
    /\ q.hasEquity # TrueString

\* C13: with zero active criteria (absent spec, empty spec, or only an
\* inactive hasEquity) Job.findAll builds no predicate and no parameter, its
\* statement has no WHERE clause, and it returns every stored job.
C13_NoCriteriaNoFilter ==
    (findCall.called /\ ZeroCriteria(SpecOf(findCall.queries))) =>
        /\ ~findCall.built.threw
        /\ findCall.built.filters = <<>>
        /\ findCall.built.values = <<>>
        /\ findCall.built.whereClause = ""
        /\ findCall.res.err = "none"
        /\ stmts = << Stmt("SELECT id, title, salary, equity, company_handle FROM jobs  ORDER BY title",
                           <<>>) >>
        /\ Returned = jobs
        /\ Len(findCall.res.rows) = Cardinality(jobs)

C13_Witness ==
    /\ findCall.called
    /\ findCall.queries =
          QueriesPassed(Queries(JsAbsent, JsAbsent, JsString(<<"f", "a", "l", "s", "e">>)))
    /\ Len(findCall.res.rows) = 3
    /\ findCall.built.whereClause = ""

\* The number of title predicates a call of Job.findAll built
TitlePredicates == Cardinality({i \in 1..Len(findCall.built.preds) :
                                    findCall.built.preds[i].kind = "ilike"})

\* C14: for a present, non-empty title the builder emits exactly one
\* title ILIKE predicate per whitespace-separated word, with parameter
\* %word%, whatever the spacing between, before or after the words, and joins
\* all predicates with AND.
C14_OnePredicatePerWord ==
    (findCall.called /\ TitleActive(SpecOf(findCall.queries))) =>
        LET words == WhitespaceWords(SpecOf(findCall.queries).title.chars)
            b == findCall.built
        IN  /\ ~b.threw
            /\ TitlePredicates = Len(words)
            /\ Len(b.filters) >= Len(words)
            /\ \A k \in 1..Len(words) :
                  /\ k <= Len(b.filters)
                  /\ b.filters[k] = "title ILIKE $" \o ToString(k)
                  /\ b.values[k] = Wildcarded(words[k])
            /\ b.whereClause = "WHERE " \o Join(b.filters, " AND ")

\* The positions of the equity predicate in the filters a call built
EquityPredicates == {i \in 1..Len(findCall.built.preds) :
                         findCall.built.preds[i].kind = "gt0"}

\* C15: the hasEquity criterion is active if and only if its value is
\* exactly the string "true"; for every other value (absent, boolean true,
\* false, "false", "yes") no equity predicate and no parameter is emitted, and
\* when active the predicate requires equity to be non-null and greater than
\* zero.
C15_HasEquityOnlyTrueString ==
    findCall.called =>
        LET q == SpecOf(findCall.queries)
            b == findCall.built
            N == Len(b.filters)
        IN  /\ q.hasEquity # TrueString =>
                  /\ EquityPredicates = {}
                  /\ Len(b.values) = Cardinality({i \in 1..Len(b.preds) :
                                                      b.preds[i].kind \in {"ilike", "gte"}})
                  /\ \A i \in 1..N : b.values[i] # JsNumber(0) \/ b.preds[i].kind = "gte"
            /\ (q.hasEquity = TrueString /\ ~b.threw) =>
                  /\ EquityPredicates = {N}
                  /\ b.filters[N] = "equity > $" \o ToString(N) \o " AND equity IS NOT NULL"
                  /\ Len(b.values) = N
                  /\ b.values[N] = JsNumber(0)
                  /\ \A r \in Returned : r.equity \notin {"null", "'0'"}
                  /\ (N = 1 /\ findCall.res.err = "none") =>
                        Returned = {r \in jobs : r.equity \notin {"null", "'0'"}}

C15_Witness ==
    /\ findCall.called
    /\ findCall.queries = QueriesPassed(Queries(JsAbsent, JsAbsent, TrueString))
    /\ \E r \in jobs : r.equity = "'0'"
    /\ \E r \in jobs : r.equity = "null"
    /\ Returned = {r \in jobs : r.id = 3}

\* The place of a predicate in the fixed criterion order
KindRank(kind) == CASE kind = "ilike" -> 1 [] kind = "gte" -> 2 [] kind = "gt0" -> 3

\* The text of a predicate of a kind at position k
FilterText(kind, k) ==
    CASE kind = "ilike" -> "title ILIKE $" \o ToString(k)
      [] kind = "gte" -> "salary >= $" \o ToString(k) \o " "
      [] kind = "gt0" -> "equity > $" \o ToString(k) \o " AND equity IS NOT NULL"

RECURSIVE Unwildcarded(_, _)
\* The title the parameters %piece% of positions 1..n come from: the pieces
\* with one space between them
Unwildcarded(values, n) ==
    LET piece == SubSeq(values[n].chars, 2, Len(values[n].chars) - 1)
    IN  IF n = 1 THEN piece ELSE Unwildcarded(values, n - 1) \o <<" ">> \o piece

\* C16: the builder appends the predicates in the order title words, then
\* minSalary, then hasEquity; the k-th predicate references placeholder $k,
\* there is one parameter per predicate, and the k-th parameter is the k-th
\* predicate's value, whatever subset of the criteria is active.
C16_FixedOrderAndPositions ==
    findCall.called =>
        LET q == SpecOf(findCall.queries)
            b == findCall.built
            N == Len(b.preds)
            kinds == {b.preds[i].kind : i \in 1..N}
        IN  /\ Len(b.filters) = N
            /\ Len(b.values) = N
            /\ \A i, j \in 1..N :
                  i < j => /\ KindRank(b.preds[i].kind) <= KindRank(b.preds[j].kind)
                           /\ b.preds[i].kind = b.preds[j].kind => b.preds[i].kind = "ilike"
            /\ ~b.threw =>
                  /\ "ilike" \in kinds <=> TitleActive(q)
                  /\ "gte" \in kinds <=> MinSalaryActive(q)
                  /\ "gt0" \in kinds <=> HasEquityActive(q)
            /\ \A k \in 1..N :
                  /\ b.preds[k].ph = k
                  /\ b.filters[k] = FilterText(b.preds[k].kind, k)
                  /\ b.preds[k].kind = "ilike" =>
                        /\ b.values[k].type = "string"
                        /\ Len(b.values[k].chars) >= 2
                        /\ b.values[k].chars[1] = "%"
                        /\ b.values[k].chars[Len(b.values[k].chars)] = "%"
                  /\ b.preds[k].kind = "gte" => b.values[k] = Number(q.minSalary)
                  /\ b.preds[k].kind = "gt0" => b.values[k] = JsNumber(0)
            /\ (TitleActive(q) /\ ~b.threw) =>
                  Unwildcarded(b.values, TitlePredicates) = q.title.chars
            /\ stmts # <<>> => stmts[1].params = b.values

C16_Witness ==
    /\ findCall.called
    /\ findCall.queries =
          QueriesPassed(Queries(JsString(<<"j", " ", "1">>), JsNumber(40000), TrueString))
    /\ findCall.built.filters =
          << "title ILIKE $1", "title ILIKE $2", "salary >= $3 ",
             "equity > $4 AND equity IS NOT NULL" >>
    /\ findCall.built.values =
          << JsString(<<"%", "j", "%">>), JsString(<<"%", "1", "%">>),
             JsNumber(40000), JsNumber(0) >>

\* C17: the filter builder never fails: for every filter spec, absent, empty
\* or with malformed values (a title that is not a string, a minSalary that is
\* not numeric, a hasEquity that is garbage), building the predicate and
\* parameter lists completes without an error, and a malformed criterion is
\* treated as inactive.
C17_FilterBuilderNeverFails ==
    findCall.called =>
        LET q == SpecOf(findCall.queries)
            b == findCall.built
        IN  /\ ~b.threw
            /\ b.err = "none"
            /\ q.title.type \notin {"string", "undefined"} => TitlePredicates = 0
            /\ Number(q.minSalary) = JsNaN =>
                  \A i \in 1..Len(b.preds) : b.preds[i].kind # "gte"
            /\ q.hasEquity # TrueString => EquityPredicates = {}

\* text contains word, whatever the case of the letters
Contains(text, word) ==
    \E i \in 1..(Len(text) - Len(word) + 1) :
        \A j \in 1..Len(word) : Lower(text[i + j - 1]) = Lower(word[j])

\* A stored job satisfies the conjunction of the active criteria of a filter
\* spec
Satisfies(row, q) ==
    /\ TitleActive(q) =>
          \A k \in 1..Len(WhitespaceWords(q.title.chars)) :
              Contains(TextValue[row.title], WhitespaceWords(q.title.chars)[k])
    /\ MinSalaryActive(q) =>
          /\ row.salary # "null"
          /\ Number(q.minSalary).type = "number"
          /\ IntegerValue[row.salary] >= Number(q.minSalary).num
    /\ HasEquityActive(q) => row.equity \notin {"null", "'0'"}

\* C18: for every set of stored jobs and every filter spec, Job.findAll
\* returns exactly the stored jobs that satisfy all active criteria (title
\* contains every word case-insensitively, salary >= minSalary, equity
\* non-null and > 0), none that fails one and none omitted, ordered by title.
C18_ExactlyMatchingJobs ==
    findCall.called =>
        /\ findCall.res.err = "none"
        /\ Returned = {r \in jobs : Satisfies(r, SpecOf(findCall.queries))}
        /\ Len(findCall.res.rows) = Cardinality(Returned)
        /\ \A i \in 1..(Len(findCall.res.rows) - 1) :
              TextLeq(TextValue[findCall.res.rows[i].title],
                      TextValue[findCall.res.rows[i + 1].title])

\* The fields of a job Job.update may change
UpdatableFields == {"title", "salary", "equity"}

\* C19: a successful Job.update(id, data) changes exactly the fields named in
\* data on the job with that id (a field given as null becomes null) and
\* leaves its id and company handle, every field not named and every other
\* stored job unchanged; the job returned is the stored job after the update.
C19_PartialUpdateFrame ==
    (modelCall.method = "Job.update" /\ modelCall.res.err = "none") =>
        LET id == modelCall.id
            data == modelCall.data
        IN  /\ Cardinality({r \in jobs0 : r.id = id}) = 1
            /\ Cardinality({r \in jobs : r.id = id}) = 1
            /\ OwnKeys(data) \subseteq UpdatableFields
            /\ LET old == CHOOSE r \in jobs0 : r.id = id
                   new == CHOOSE r \in jobs : r.id = id
               IN  /\ \A f \in UpdatableFields :
                         new[f] = IF f \in OwnKeys(data)
                                  THEN data[CHOOSE i \in 1..Len(data) : data[i].k = f].v
                                  ELSE old[f]
                   /\ new.id = old.id
                   /\ new.company_handle = old.company_handle
                   /\ modelCall.res.ret = {new}
            /\ {r \in jobs : r.id # id} = {r \in jobs0 : r.id # id}
            /\ Len(stmts) = 1

C19_Witness ==
    /\ modelCall.method = "Job.update"
    /\ modelCall.id = 1
    /\ modelCall.data = << Prop("salary", "null"), Prop("title", "'New'") >>
    /\ modelCall.res.err = "none"
    /\ \E r \in jobs0 : r.id = 1 /\ r.salary # "null" /\ r.equity = "'0.321'"
    /\ \E r \in jobs : /\ r.id = 1 /\ r.salary = "null" /\ r.title = "'New'"
                       /\ r.equity = "'0.321'" /\ r.company_handle = "'c1'"

\* The keys under which update data names the job's id and its company
\* handle: the column names and the field name of the job objects
DisallowedFields == {"id", "company_handle", "companyHandle"}

\* C20: Job.update rejects with BadRequest (400) every update whose data
\* references the job's id or its company handle, before any statement is
\* executed, so the stored job keeps its id and company handle and is
\* otherwise unchanged.
C20_DisallowedFieldsRejected ==
    (/\ modelCall.method = "Job.update"
     /\ OwnKeys(modelCall.data) \cap DisallowedFields # {}) =>
        /\ modelCall.res.err = "BadRequestError"
        /\ StatusOf(modelCall.res.err) = 400
        /\ stmts = <<>>
        /\ jobs = jobs0

\* The jobs stored when the call began that have the id the call was made with
StoredWithId == {r \in jobs0 : r.id = modelCall.id}

AlreadyApplied ==
    {a \in applications0 : a.username = modelCall.username /\ a.job_id = modelCall.id}

Identifier == IF modelCall.method = "User.update" THEN modelCall.username ELSE modelCall.id

\* The values the builder is given: those of the update data, the password
\* replaced by its hash by User.update
BuilderValues ==
    LET given == IF modelCall.method = "User.update" THEN HashPassword(modelCall.data)
                 ELSE modelCall.data
    IN  [i \in 1..Len(given) |-> given[i].v]

\* C23: in the statement built by Job.update and User.update from an update
\* spec with N keys, the row identifier is bound to placeholder $(N+1) and is
\* the last of exactly N+1 parameters, the first N parameters being the
\* builder's values in order; the text has the placeholders $1..$N in its
\* SET clause, one per key in order, and $(N+1) in its WHERE clause, each
\* with exactly one parameter at its position, for every N >= 1.
C23_IdentifierBoundLast ==
    (modelCall.method \in {"Job.update", "User.update"} /\ stmts # <<>>) =>
        LET N == Len(modelCall.data)
            table == UpdateTable(modelCall.method)
            q == stmts[1]
        IN  /\ N >= 1
            /\ Len(stmts) = 1
            /\ Len(q.params) = N + 1
            /\ q.params[N + 1] = Identifier
            /\ SubSeq(q.params, 1, N) = BuilderValues
            /\ q.sql =
                  (IF modelCall.method = "User.update" THEN "UPDATE users SET "
                   ELSE "UPDATE jobs SET ")
                  \o Join([i \in 1..N |->
                             "\"" \o ColumnOfKey(table, modelCall.data[i].k)
                                  \o "\"=$" \o ToString(i)], ", ")
                  \o (IF modelCall.method = "User.update" THEN " WHERE username = $"
                      ELSE " WHERE id = $")
                  \o ToString(N + 1)

\* User.update with two keys, the password hashed, and the username third
C23_Witness ==
    /\ modelCall.method = "User.update"
    /\ modelCall.username = "u1"
    /\ modelCall.data = << Prop("firstName", "'New'"), Prop("password", "'new-password'") >>
    /\ Len(stmts) = 1
    /\ stmts[1].sql = "UPDATE users SET \"first_name\"=$1, \"password\"=$2 WHERE username = $3"
    /\ stmts[1].params = << "'New'", Hash("'new-password'"), "u1" >>
    /\ modelCall.res.err = "none"

\* C24: after any sequence of Job.create calls, including calls from
\* concurrent requests whose duplicate-check query and insert statement
\* interleave, no two stored jobs share the same (title, companyHandle): a
\* create for a pair already in the database fails with BadRequest and
\* inserts nothing.
C24_NoDuplicateJobs ==
    /\ \A r1, r2 \in jobs :
          (r1.title = r2.title /\ r1.company_handle = r2.company_handle) => r1 = r2
    /\ \A p \in Requesters :
          (creating[p].pc = "done" /\ creating[p].stored) =>
              /\ creating[p].err = "BadRequestError"
              /\ ~ creating[p].inserted

====
